---- MODULE Spec2Model ----
(***************************************************************************)
(* Model of the precedent retrieval and ranking engine                     *)
(* (src/src/retriever.py, class TurkishLegalRetriever), of the embedding   *)
(* job (src/src/embed.py) and of the scraper (src/src/mcp_scraper.py).     *)
(*                                                                         *)
(* Text is a sequence of one-character strings.  The module is ASCII, so   *)
(* the Turkish letters are written as digraphs: "s~" is s-cedilla, "i~" is *)
(* dotless i, "o~", "u~", "c~", "g~" likewise, and "I~" is dotted capital  *)
(* I.  Scores are fixed-point integers in units of 1/10000.                *)
(***************************************************************************)
EXTENDS Integers, Sequences, FiniteSets, TLC

VARIABLES
  llm,               \* self._llm: 0 is None, n > 0 is the n-th Llama instance
  llmBuilt,          \* number of Llama instances constructed so far
  cached_analyses,   \* self._cached_analyses: query -> dict
  world,             \* self.index, self.meta and the decision store
  pc,                \* position inside search_beneficial_precedents
  case_description,  \* the argument of the running search
  keywords,          \* local of search_beneficial_precedents
  intent,            \* local of search_beneficial_precedents
  hits,              \* what self.index.search returned: <<idx, raw score>>
  failRanks,         \* ranks whose decision-store read raises
  all_results,       \* local of search_beneficial_precedents
  result,            \* the returned dict
  llmCalls,          \* LLM invocations of the running search, by purpose
  fresh,             \* queries cached during the running search
  staleRead,         \* a cache entry of an earlier search was read
  last,              \* the last direct call of a query-understanding method
  prev_query,        \* the argument of the search before the running one
  scored,            \* the last direct call of a scorer: arguments and result
  embed_pc,          \* position inside embed.main
  db_decisions,      \* embed.main: the rows of the decision store, with chunks
  all_paragraphs,    \* embed.main: local
  embeddings,        \* embed.main: local
  meta_data,         \* embed.main: local
  batch_start,       \* embed.main: the i of the batch loop
  meta_file,         \* data/meta.json, None while it does not exist
  index_file,        \* data/faiss.index, None while it does not exist
  scraper_pc,        \* position inside mcp_scraper._async_main
  site,              \* the documents the search tool lists, in order
  page_number,       \* search_params["pageNumber"]
  docs,              \* the page being processed
  todo,              \* the documents of the page still to be handled
  pending,           \* rows inserted and not yet committed
  decisions,         \* the committed rows of the decisions table
  checkpoint_file,   \* data/scraper_checkpoint.json
  total_saved,       \* local of _async_main
  existing_urls,     \* local of _async_main
  committed_pages,   \* pages whose conn.commit() has been executed
  runs               \* runs of the scraper started so far

vars == << llm, llmBuilt, cached_analyses, world, pc, case_description,
           keywords, intent, hits, failRanks, all_results, result, llmCalls,
           fresh, staleRead, last, prev_query, scored, embed_pc, db_decisions,
           all_paragraphs, embeddings, meta_data, batch_start, meta_file,
           index_file, scraper_pc, site, page_number, docs, todo, pending,
           decisions, checkpoint_file, total_saved, existing_urls,
           committed_pages, runs >>

\* the state outside the retriever's search and query understanding
embedVars == << embed_pc, db_decisions, all_paragraphs, embeddings, meta_data,
                batch_start, meta_file, index_file >>

scraperVars == << scraper_pc, site, page_number, docs, todo, pending, decisions,
                  checkpoint_file, total_saved, existing_urls, committed_pages,
                  runs >>

aside == << scored, embedVars, scraperVars >>

---------------------------------------------------------------------------
(* Python values *)

\* None, kept apart from every text
None == << "<None>" >>

Min(a, b) == IF a < b THEN a ELSE b
Max(a, b) == IF a > b THEN a ELSE b

\* seq[:n]
Take(seq, n) == SubSeq(seq, 1, Min(n, Len(seq)))

\* x in seq, for a list
InList(x, seq) == \E i \in 1..Len(seq) : seq[i] = x

\* bool(x) of a text or None
Truthy(x) == x # None /\ x # << >>

\* sub in text
Contains(sub, text) ==
  \E i \in 0..(Len(text) - Len(sub)) : SubSeq(text, i + 1, i + Len(sub)) = sub

\* text.find(sub), when sub in text
Find(sub, text) ==
  CHOOSE i \in 0..(Len(text) - Len(sub)) :
    /\ SubSeq(text, i + 1, i + Len(sub)) = sub
    /\ \A j \in 0..(i - 1) : SubSeq(text, j + 1, j + Len(sub)) # sub

\* text.split(sep)
RECURSIVE Split(_, _)
Split(text, sep) ==
  IF ~Contains(sep, text) THEN << text >>
  ELSE LET i == Find(sep, text)
       IN  << SubSeq(text, 1, i) >>
             \o Split(SubSeq(text, i + Len(sep) + 1, Len(text)), sep)

Whitespace == { " ", "\n", "\t" }

RECURSIVE LStrip(_)
LStrip(text) ==
  IF text # << >> /\ Head(text) \in Whitespace THEN LStrip(Tail(text)) ELSE text

RECURSIVE RStrip(_)
RStrip(text) ==
  IF text # << >> /\ text[Len(text)] \in Whitespace
  THEN RStrip(SubSeq(text, 1, Len(text) - 1)) ELSE text

\* text.strip()
Strip(text) == RStrip(LStrip(text))

\* text.split(): runs of whitespace separate, no empty token
RECURSIVE SplitWs(_)
SplitWs(text) ==
  LET t == LStrip(text)
  IN  IF t = << >> THEN << >>
      ELSE LET n == IF \E k \in 1..Len(t) : t[k] \in Whitespace
                    THEN (CHOOSE k \in 1..Len(t) :
                            /\ t[k] \in Whitespace
                            /\ \A j \in 1..(k - 1) : t[j] \notin Whitespace) - 1
                    ELSE Len(t)
           IN  << SubSeq(t, 1, n) >> \o SplitWs(SubSeq(t, n + 1, Len(t)))

\* str.lower() per character; the dotted capital I becomes i + combining dot
LowerChar(c) ==
  CASE c = "A" -> << "a" >> [] c = "B" -> << "b" >> [] c = "C" -> << "c" >>
    [] c = "D" -> << "d" >> [] c = "E" -> << "e" >> [] c = "F" -> << "f" >>
    [] c = "G" -> << "g" >> [] c = "H" -> << "h" >> [] c = "I" -> << "i" >>
    [] c = "J" -> << "j" >> [] c = "K" -> << "k" >> [] c = "L" -> << "l" >>
    [] c = "M" -> << "m" >> [] c = "N" -> << "n" >> [] c = "O" -> << "o" >>
    [] c = "P" -> << "p" >> [] c = "R" -> << "r" >> [] c = "S" -> << "s" >>
    [] c = "T" -> << "t" >> [] c = "U" -> << "u" >> [] c = "V" -> << "v" >>
    [] c = "W" -> << "w" >> [] c = "Y" -> << "y" >> [] c = "Z" -> << "z" >>
    [] c = "S~" -> << "s~" >> [] c = "O~" -> << "o~" >> [] c = "U~" -> << "u~" >>
    [] c = "C~" -> << "c~" >> [] c = "G~" -> << "g~" >>
    [] c = "I~" -> << "i", "~dot" >>
    [] OTHER -> << c >>

\* text.lower(), the text halved at each step
RECURSIVE Lower(_)
Lower(text) ==
  IF text = << >> THEN << >>
  ELSE IF Len(text) = 1 THEN LowerChar(text[1])
  ELSE LET h == Len(text) \div 2
       IN  Lower(SubSeq(text, 1, h)) \o Lower(SubSeq(text, h + 1, Len(text)))

\* [x for x in seq if Test(x)]
Filter(seq, Test(_)) == SelectSeq(seq, Test)

---------------------------------------------------------------------------
(* Literals of retriever.py *)

positive_outcomes ==
  << <<"k","a","b","u","l">>,
     <<"u","y","g","u","n">>,
     <<"d","o","g~","r","u">>,
     <<"g","e","c~","e","r","l","i">>,
     <<"h","a","k","l","i~">>,
     <<"y","e","r","i","n","d","e">>,
     <<"o","n","a","y","l","a","n","d","i~">>,
     <<"d","e","s","t","e","k","l","e","n","d","i">>,
     <<"k","a","b","u","l"," ","e","d","i","l","d","i">>,
     <<"u","y","g","u","n"," ","b","u","l","u","n","d","u">>,
     <<"d","o","g~","r","u"," ","b","u","l","u","n","d","u">>,
     <<"h","u","k","u","k","a"," ","u","y","g","u","n">>,
     <<"a","d","i","l">>,
     <<"h","a","k","k","a","n","i","y","e","t","l","i">>,
     <<"m","e","m","n","u","n","i","y","e","t"," ","v","e","r","i","c","i">> >>

legal_principles ==
  << <<"p","r","e","n","s","i","p">>,
     <<"k","u","r","a","l">>,
     <<"e","s","a","s">>,
     <<"h","u","k","u","k","i">>,
     <<"y","a","s","a","l">>,
     <<"m","e","v","z","u","a","t">>,
     <<"k","a","n","u","n">>,
     <<"y","o~","n","e","t","m","e","l","i","k">>,
     <<"t","u~","z","u~","k">>,
     <<"a","n","a","y","a","s","a">>,
     <<"t","e","m","e","l"," ","h","a","k">>,
     <<"i","n","s","a","n"," ","h","a","k","l","a","r","i~">> >>

court_hierarchy ==
  << <<"y","a","r","g","i~","t","a","y">>,
     <<"d","a","n","i~","s~","t","a","y">>,
     <<"a","n","a","y","a","s","a"," ","m","a","h","k","e","m","e","s","i">>,
     <<"g","e","n","e","l"," ","k","u","r","u","l">>,
     <<"b","u~","y","u~","k"," ","g","e","n","e","l"," ","k","u","r","u","l">>,
     <<"h","u","k","u","k"," ","g","e","n","e","l"," ","k","u","r","u","l">>,
     <<"c","e","z","a"," ","g","e","n","e","l"," ","k","u","r","u","l">> >>

legal_terms ==
  << <<"n","a","f","a","k","a">>,
     <<"b","o","s~","a","n","m","a">>,
     <<"v","e","l","a","y","e","t">>,
     <<"t","a","z","m","i","n","a","t">>,
     <<"a","i","l","e">>,
     <<"e","v","l","i","l","i","k">>,
     <<"e","s~">>,
     <<"k","a","s","t","e","n">>,
     <<"o~","l","d","u~","r","m","e">>,
     <<"y","a","r","a","l","a","m","a">>,
     <<"m","e","s~","r","u"," ","m","u~","d","a","f","a","a">>,
     <<"c","e","z","a">>,
     <<"h","a","p","i","s">>,
     <<"i","s~"," ","k","a","z","a","s","i~">>,
     <<"i","s~","v","e","r","e","n">>,
     <<"g","u~","v","e","n","l","i","k">>,
     <<"s","o","r","u","m","l","u","l","u","k">>,
     <<"b","o","r","c~">>,
     <<"a","l","a","c","a","k">>,
     <<"s","o~","z","l","e","s~","m","e">>,
     <<"m","i","r","a","s">>,
     <<"t","a","s~","i~","n","m","a","z">>,
     <<"m","u~","l","k","i","y","e","t">>,
     <<"h","i~","r","s","i~","z","l","i~","k">>,
     <<"d","o","l","a","n","d","i~","r","i~","c","i~","l","i~","k">> >>

important_words ==
  << <<"n","a","f","a","k","a">>,
     <<"b","o","s~","a","n","m","a">>,
     <<"d","a","v","a">>,
     <<"k","a","r","a","r">>,
     <<"e","m","s","a","l">>,
     <<"m","i","k","t","a","r">>,
     <<"k","o","n","u">> >>

common_words ==
  << <<"v","e">>,
     <<"i","l","e">>,
     <<"i","c~","i","n">>,
     <<"k","o","n","u","s","u","n","d","a">>,
     <<"a","r","a","s","i~","n","d","a">>,
     <<"h","a","k","k","i~","n","d","a">>,
     <<"d","a","v","a","s","i~">>,
     <<"k","a","r","a","r">>,
     <<"e","m","s","a","l">>,
     <<"a","r","i~","y","o","r","u","m">>,
     <<"b","u","l">>,
     <<"i","s","t","i","y","o","r","u","m">> >>

\* 'KEYWORDS:'
KEYWORDS_MARKER == <<"K","E","Y","W","O","R","D","S",":">>
\* Dava türü:
DAVA_TURU == <<"D","a","v","a"," ","t","u~","r","u~",":">>
\* 'Ana konu:'
ANA_KONU == <<"A","n","a"," ","k","o","n","u",":">>
\* 'Arama terimleri:'
ARAMA_TERIMLERI == <<"A","r","a","m","a"," ","t","e","r","i","m","l","e","r","i",":">>
\* 'Ceza'
CEZA == <<"C","e","z","a">>
\* 'Genel'
GENEL == <<"G","e","n","e","l">>
\* 'Bilinmiyor'
BILINMIYOR == <<"B","i","l","i","n","m","i","y","o","r">>
\* 'genel kurul'
GENEL_KURUL == <<"g","e","n","e","l"," ","k","u","r","u","l">>
\* 'anayasa'
ANAYASA == <<"a","n","a","y","a","s","a">>
\* yargıtay
YARGITAY == <<"y","a","r","g","i~","t","a","y">>
\* danıştay
DANISTAY == <<"d","a","n","i~","s~","t","a","y">>
\* '2023'
Y2023 == <<"2","0","2","3">>
\* '2024'
Y2024 == <<"2","0","2","4">>
\* Yeterli emsal karar bulunamadı.
INSUFFICIENT == <<"Y","e","t","e","r","l","i"," ","e","m","s","a","l"," ","k","a","r","a","r"," ","b","u","l","u","n","a","m","a","d","i~",".">>
\* **En İyi 3 Emsal Kararın Değerlendirmesi:**\n\n
FB_HEADER == <<"*","*","E","n"," ","I~","y","i"," ","3"," ","E","m","s","a","l"," ","K","a","r","a","r","i~","n"," ","D","e","g~","e","r","l","e","n","d","i","r","m","e","s","i",":","*","*","\n","\n">>
\*    - Bu karar, sorunuzla ilgili hukuki prensipleri içermektedir.\n
FB_LINE1 == <<" "," "," ","-"," ","B","u"," ","k","a","r","a","r",","," ","s","o","r","u","n","u","z","l","a"," ","i","l","g","i","l","i"," ","h","u","k","u","k","i"," ","p","r","e","n","s","i","p","l","e","r","i"," ","i","c~","e","r","m","e","k","t","e","d","i","r",".","\n">>
\*    - Dilekçenizde emsal olarak kullanılabilir.\n\n
FB_LINE2 == <<" "," "," ","-"," ","D","i","l","e","k","c~","e","n","i","z","d","e"," ","e","m","s","a","l"," ","o","l","a","r","a","k"," ","k","u","l","l","a","n","i~","l","a","b","i","l","i","r",".","\n","\n">>
\* **Genel Değerlendirme:** Bu kararlar, sorunuzla ilgili en uygun ve faydalı hukuki emsalleri içermektedir.
FB_CLOSING == <<"*","*","G","e","n","e","l"," ","D","e","g~","e","r","l","e","n","d","i","r","m","e",":","*","*"," ","B","u"," ","k","a","r","a","r","l","a","r",","," ","s","o","r","u","n","u","z","l","a"," ","i","l","g","i","l","i"," ","e","n"," ","u","y","g","u","n"," ","v","e"," ","f","a","y","d","a","l","i~"," ","h","u","k","u","k","i"," ","e","m","s","a","l","l","e","r","i"," ","i","c~","e","r","m","e","k","t","e","d","i","r",".">>
\* '   - Benzerlik: '
FB_SIM == <<" "," "," ","-"," ","B","e","n","z","e","r","l","i","k",":"," ">>
\* ' | Keyword: '
FB_KW == <<" ","|"," ","K","e","y","w","o","r","d",":"," ">>
\* ' | Fayda: '
FB_BEN == <<" ","|"," ","F","a","y","d","a",":"," ">>
\* Nafaka ve Velayet davası
Q_NAFAKA == <<"N","a","f","a","k","a"," ","v","e"," ","V","e","l","a","y","e","t"," ","d","a","v","a","s","i~">>
\* 'emsal karar bul'
Q_EMSAL == <<"e","m","s","a","l"," ","k","a","r","a","r"," ","b","u","l">>
\* Kira artışı için bir itiraz süresi hesabı bedeli tespiti
Q_KIRA == <<"K","i","r","a"," ","a","r","t","i~","s~","i~"," ","i","c~","i","n"," ","b","i","r"," ","i","t","i","r","a","z"," ","s","u~","r","e","s","i"," ","h","e","s","a","b","i~"," ","b","e","d","e","l","i"," ","t","e","s","p","i","t","i">>
\* 'bul ve ile'
Q_STOP == <<"b","u","l"," ","v","e"," ","i","l","e">>
\* 'Bilmiyorum'
R_NOMARKER == <<"B","i","l","m","i","y","o","r","u","m">>
\* ' \n'
R_BLANK == <<" ","\n">>
\* 'KEYWORDS:'
R_MARKER_ONLY == <<"K","E","Y","W","O","R","D","S",":">>
\* ' KEYWORDS: nafaka, kabul edildi\n'
R_KW_OK == <<" ","K","E","Y","W","O","R","D","S",":"," ","n","a","f","a","k","a",","," ","k","a","b","u","l"," ","e","d","i","l","d","i","\n">>
\* 'KEYWORDS: nafaka, ,'
R_KW_TRAIL == <<"K","E","Y","W","O","R","D","S",":"," ","n","a","f","a","k","a",","," ",",">>
\* 1. Dava türü: Ceza\n2. Ana konu: Yaralama\n3. Arama terimleri: kasten, yaralama
R_INT_OK == <<"1","."," ","D","a","v","a"," ","t","u~","r","u~",":"," ","C","e","z","a","\n","2","."," ","A","n","a"," ","k","o","n","u",":"," ","Y","a","r","a","l","a","m","a","\n","3","."," ","A","r","a","m","a"," ","t","e","r","i","m","l","e","r","i",":"," ","k","a","s","t","e","n",","," ","y","a","r","a","l","a","m","a">>
\* Dava türü: Aile
R_INT_PART == <<"D","a","v","a"," ","t","u~","r","u~",":"," ","A","i","l","e">>
\* 'Bu kararlar emsaldir.'
R_EXPL == <<"B","u"," ","k","a","r","a","r","l","a","r"," ","e","m","s","a","l","d","i","r",".">>

\* self.top_k, line 40
top_k == 20

\* self.top_k * 3, line 265
retrieve_k == top_k * 3

\* chunks of the small index whose metadata lags one entry behind
MaxVectors == 4

\* single ranks whose store read may fail
MaxFailRank == 2

---------------------------------------------------------------------------
(* The LLM *)

\* Outcomes of one LLM invocation: the import or the constructor raises, the
\* completion raises, or the completion returns a text.
LoadFail == [kind |-> "load_fail", text |-> << >>]
CallFail == [kind |-> "call_fail", text |-> << >>]
Says(t) == [kind |-> "text", text |-> t]
NoCall == [kind |-> "no_call", text |-> << >>]

\* _call_mistral_minimal with its try/except removed: the exception escapes
call_mistral_uncaught(s, o) ==
  LET loaded == IF s.llm = 0
                THEN [s EXCEPT !.llm = s.llmBuilt + 1, !.llmBuilt = s.llmBuilt + 1]
                ELSE s
  IN  IF o.kind = "load_fail" THEN [self |-> s, text |-> << >>, raised |-> TRUE]
      ELSE IF o.kind = "call_fail"
           THEN [self |-> loaded, text |-> << >>, raised |-> TRUE]
           ELSE [self |-> loaded, text |-> Strip(o.text), raised |-> FALSE]

\* _call_mistral_minimal without the test of line 71: a Llama is constructed
\* on every call
call_mistral_rebuilding(s, o) ==
  LET loaded == [s EXCEPT !.llm = s.llmBuilt + 1, !.llmBuilt = s.llmBuilt + 1]
  IN  IF o.kind = "load_fail" THEN [self |-> s, text |-> << >>, raised |-> FALSE]
      ELSE IF o.kind = "call_fail"
           THEN [self |-> loaded, text |-> << >>, raised |-> FALSE]
           ELSE [self |-> loaded, text |-> Strip(o.text), raised |-> FALSE]

\* _call_mistral_minimal: s is the retriever (llm, llmBuilt, cache)
call_mistral_minimal(s, o) ==
  LET loaded == IF s.llm = 0
                THEN [s EXCEPT !.llm = s.llmBuilt + 1, !.llmBuilt = s.llmBuilt + 1]
                ELSE s
  IN  IF o.kind = "load_fail" THEN [self |-> s, text |-> << >>, raised |-> FALSE]
      ELSE IF o.kind = "call_fail"
           THEN [self |-> loaded, text |-> << >>, raised |-> FALSE]
           ELSE [self |-> loaded, text |-> Strip(o.text), raised |-> FALSE]

---------------------------------------------------------------------------
(* Python dicts as functions *)

EmptyDict == << >>

\* d[k] = v
DictSet(d, k, v) == [x \in DOMAIN d \cup {k} |-> IF x = k THEN v ELSE d[x]]

\* d.update(other)
DictUpdate(d, other) ==
  [x \in DOMAIN d \cup DOMAIN other |-> IF x \in DOMAIN other THEN other[x] ELSE d[x]]

---------------------------------------------------------------------------
(* Query understanding *)

\* the parse of the response, lines 117-123
ParseKeywords(response) ==
  IF Contains(KEYWORDS_MARKER, response)
  THEN LET keywords_text == Strip(Split(response, KEYWORDS_MARKER)[2])
           parts == Split(keywords_text, << "," >>)
       IN  [k \in 1..Len(parts) |-> Strip(parts[k])]
  ELSE << >>

\* the third fallback tier, lines 145-148
QueryWords(query) ==
  LET words == SplitWs(Lower(query))
      Keep(word) == ~InList(word, common_words) /\ Len(word) > 3
  IN  Take(Filter(words, Keep), 5)

\* the fallback with the generic-case words tried before the legal terms
FallbackGenericFirst(query) ==
  LET query_lower == Lower(query)
      InQuery(term) == Contains(term, query_lower)
      tier1 == Filter(legal_terms, InQuery)
      tier2 == Filter(important_words, InQuery)
  IN  IF tier2 # << >> THEN tier2
      ELSE IF tier1 # << >> THEN tier1
      ELSE QueryWords(query)

\* the fallback, lines 126-148
FallbackKeywords(query) ==
  LET query_lower == Lower(query)
      InQuery(term) == Contains(term, query_lower)
      tier1 == Filter(legal_terms, InQuery)
      tier2 == Filter(important_words, InQuery)
  IN  IF tier1 # << >> THEN tier1
      ELSE IF tier2 # << >> THEN tier2
      ELSE QueryWords(query)

\* _extract_search_keywords without the cache check of lines 97-98
extract_search_keywords_uncached(s, query, o) ==
  LET r == call_mistral_minimal(s, o)
      parsed == ParseKeywords(r.text)
      kws == IF parsed # << >> THEN parsed ELSE FallbackKeywords(query)
      entry == IF query \in DOMAIN r.self.cache
               THEN r.self.cache[query] ELSE EmptyDict
      cache2 == DictSet(r.self.cache, query, DictSet(entry, "keywords", kws))
  IN  [self |-> [r.self EXCEPT !.cache = cache2], ret |-> kws,
       hit |-> FALSE, called |-> TRUE, raised |-> r.raised]

\* _extract_search_keywords
extract_search_keywords(s, query, o) ==
  IF query \in DOMAIN s.cache
  THEN [self |-> s,
        ret |-> IF "keywords" \in DOMAIN s.cache[query]
                THEN s.cache[query]["keywords"] ELSE << >>,
        hit |-> TRUE, called |-> FALSE, raised |-> FALSE]
  ELSE LET r == call_mistral_minimal(s, o)
           parsed == ParseKeywords(r.text)
           kws == IF parsed # << >> THEN parsed ELSE FallbackKeywords(query)
           entry == IF query \in DOMAIN r.self.cache
                    THEN r.self.cache[query] ELSE EmptyDict
           cache2 == DictSet(r.self.cache, query, DictSet(entry, "keywords", kws))
       IN  IF r.raised
           THEN [self |-> r.self, ret |-> << >>,
                 hit |-> FALSE, called |-> TRUE, raised |-> TRUE]
           ELSE [self |-> [r.self EXCEPT !.cache = cache2], ret |-> kws,
                 hit |-> FALSE, called |-> TRUE, raised |-> FALSE]

\* the intent before parsing, lines 191-196
DefaultIntent ==
  [case_type |-> GENEL, main_topic |-> << >>, search_terms |-> << >>,
   is_criminal |-> FALSE]

\* line.split(":")[1].strip(); IndexError when there is no second part
AfterColon(line) ==
  LET parts == Split(line, << ":" >>)
  IN  IF Len(parts) < 2 THEN None ELSE Strip(parts[2])

\* one iteration of the loop over the lines, lines 200-209
IntentLine(st, line) ==
  IF st.exc THEN st
  ELSE IF Contains(DAVA_TURU, line)
       THEN IF AfterColon(line) = None THEN [st EXCEPT !.exc = TRUE]
            ELSE [st EXCEPT !.intent.case_type = AfterColon(line),
                            !.intent.is_criminal = Contains(CEZA, AfterColon(line))]
  ELSE IF Contains(ANA_KONU, line)
       THEN IF AfterColon(line) = None THEN [st EXCEPT !.exc = TRUE]
            ELSE [st EXCEPT !.intent.main_topic = AfterColon(line)]
  ELSE IF Contains(ARAMA_TERIMLERI, line)
       THEN IF AfterColon(line) = None THEN [st EXCEPT !.exc = TRUE]
            ELSE LET terms == Split(AfterColon(line), << "," >>)
                 IN  [st EXCEPT !.intent.search_terms =
                                   [k \in 1..Len(terms) |-> Strip(terms[k])]]
  ELSE st

RECURSIVE IntentLines(_, _)
IntentLines(st, lines) ==
  IF lines = << >> THEN st
  ELSE IntentLines(IntentLine(st, Head(lines)), Tail(lines))

\* the parse of the response with its except branch, lines 198-212
ParseIntent(response, query) ==
  LET st == IntentLines([intent |-> DefaultIntent, exc |-> FALSE],
                        Split(response, << "\n" >>))
  IN  IF st.exc
      THEN [st.intent EXCEPT !.search_terms = Take(SplitWs(query), 5)]
      ELSE st.intent

\* _extract_case_intent
extract_case_intent(s, query, o) ==
  IF query \in DOMAIN s.cache /\ "case_type" \in DOMAIN s.cache[query]
  THEN [self |-> s, ret |-> s.cache[query],
        hit |-> TRUE, called |-> FALSE, raised |-> FALSE]
  ELSE LET r == call_mistral_minimal(s, o)
           parsed == ParseIntent(r.text, query)
           entry == IF query \in DOMAIN r.self.cache
                    THEN r.self.cache[query] ELSE EmptyDict
           cache2 == DictSet(r.self.cache, query, DictUpdate(entry, parsed))
       IN  IF r.raised
           THEN [self |-> r.self, ret |-> DefaultIntent,
                 hit |-> FALSE, called |-> TRUE, raised |-> TRUE]
           ELSE [self |-> [r.self EXCEPT !.cache = cache2], ret |-> parsed,
                 hit |-> FALSE, called |-> TRUE, raised |-> FALSE]

---------------------------------------------------------------------------
(* Scorers *)

\* number of entries of a list that satisfy Test
Count(seq, Test(_)) == Len(SelectSeq(seq, Test))

\* _keyword_match_score without the two lower() calls
keyword_match_score_cased(decision_text, kws) ==
  IF kws = << >> THEN 0
  ELSE LET Hit(keyword) == Contains(keyword, decision_text)
       IN  (Count(kws, Hit) * 10000) \div Len(kws)

\* _keyword_match_score, in 1/10000
keyword_match_score(decision_text, kws) ==
  IF kws = << >> THEN 0
  ELSE LET text_lower == Lower(decision_text)
           Hit(keyword) == Contains(Lower(keyword), text_lower)
       IN  (Count(kws, Hit) * 10000) \div Len(kws)

\* _calculate_benefit_score, in 1/10000; `"2023" in court_info` raises
\* TypeError when court_info is None
calculate_benefit_score(decision_text, court_info) ==
  LET text_lower == Lower(decision_text)
      court_lower == IF Truthy(court_info) THEN Lower(court_info) ELSE << >>
      InText(keyword) == Contains(keyword, text_lower)
      InCourt(keyword) == Contains(keyword, court_lower)
      positive_count == Count(positive_outcomes, InText)
      principle_count == Count(legal_principles, InText)
      hierarchy ==
        IF Count(court_hierarchy, InCourt) > 0
        THEN IF InCourt(GENEL_KURUL) \/ InCourt(ANAYASA) THEN 3000
             ELSE IF InCourt(YARGITAY) \/ InCourt(DANISTAY) THEN 2000
             ELSE 0
        ELSE 0
      recency == IF Contains(Y2023, court_info) \/ Contains(Y2024, court_info)
                 THEN 1000 ELSE 0
  IN  IF court_info = None
      THEN [raised |-> TRUE, value |-> 0]
      ELSE [raised |-> FALSE,
            value |-> Min(positive_count * 1000 + principle_count * 500
                            + hierarchy + recency, 10000)]

\* 1 / (1 + exp(-(raw - 2.0) * 0.4)) in 1/10000, as a step table over the
\* integer raw similarities (the padding score of the index maps to 0)
Sigmoid(raw) ==
  CASE raw >= 25 -> 10000
    [] raw >= 12 /\ raw < 25 -> 9820
    [] raw >= 7 /\ raw < 12 -> 8808
    [] raw >= 4 /\ raw < 7 -> 6900
    [] raw >= 2 /\ raw < 4 -> 5000
    [] raw >= 0 /\ raw < 2 -> 3100
    [] raw >= -3 /\ raw < 0 -> 1192
    [] raw >= -10 /\ raw < -3 -> 81
    [] OTHER -> 0

\* lines 286-288
semantic_of(raw) == 6000 + (Sigmoid(raw) * 3) \div 10

\* the fusion without the clamp of line 299
fuse_unclamped(semantic_score, keyword_score, benefit_score) ==
  (semantic_score * 35 + keyword_score * 35 + benefit_score * 30) \div 100

\* lines 298-299
fuse(semantic_score, keyword_score, benefit_score) ==
  Max(6000, Min((semantic_score * 35 + keyword_score * 35 + benefit_score * 30)
                  \div 100, 9500))

---------------------------------------------------------------------------
(* Candidate search *)

\* the bounds check of line 269
out_of_range(idx, n) == idx >= n

\* lst[idx] is defined (no IndexError), negative idx counting from the end
HasIndex(lst, idx) == idx < Len(lst) /\ idx >= 0 - Len(lst)

\* lst[idx] of a Python list
PyIndex(lst, idx) == IF idx >= 0 THEN lst[idx + 1] ELSE lst[Len(lst) + idx + 1]

\* x or "Bilinmiyor"
OrUnknown(x) == IF Truthy(x) THEN x ELSE BILINMIYOR

\* the body of the loop for one metadata entry whose row was read:
\* lines 282-313 without the semantic score, which depends on the hit
ScoreRow(m, row, kws) ==
  LET decision_text == IF Truthy(row.raw_text) THEN row.raw_text ELSE m.snippet
      keyword_score == keyword_match_score(decision_text, kws)
      benefit == calculate_benefit_score(decision_text, row.daire)
  IN  [raised |-> benefit.raised,
       keyword_score |-> keyword_score,
       benefit_score |-> benefit.value]

\* lines 290-295 evaluated once per distinct chunk that has a row, for the
\* loop below to look up: pairs << chunk, ScoreRow of the chunk >>
ScoreTable(w, kws) ==
  LET chunks == { w.meta[j] : j \in 1..Len(w.meta) }
  IN  { << m, ScoreRow(m, w.store[m.id], kws) >> :
          m \in { c \in chunks : c.id \in DOMAIN w.store } }

Lookup(table, m) == (CHOOSE p \in table : p[1] = m)[2]

\* one iteration of the loop of lines 268-316: the candidate appended for
\* hit number i, or nothing
CandidateOf(w, table, fails, i, hit) ==
  LET idx == hit[1]
      raw == hit[2]
  IN  IF out_of_range(idx, Len(w.meta)) THEN << >>
      ELSE IF i \in fails THEN << >>
      ELSE IF ~HasIndex(w.meta, idx) THEN << >>
      ELSE LET m == PyIndex(w.meta, idx)
           IN  IF m.id \notin DOMAIN w.store THEN << >>
               ELSE LET row == w.store[m.id]
                        sc == Lookup(table, m)
                        semantic_score == semantic_of(raw)
                    IN  IF sc.raised THEN << >>
                        ELSE << [ id |-> m.id,
                                  score |-> fuse(semantic_score, sc.keyword_score,
                                                 sc.benefit_score),
                                  semantic_score |-> semantic_score,
                                  keyword_score |-> sc.keyword_score,
                                  benefit_score |-> sc.benefit_score,
                                  snippet |-> m.snippet,
                                  daire |-> OrUnknown(row.daire),
                                  esas |-> OrUnknown(row.esas),
                                  karar |-> OrUnknown(row.karar),
                                  tarih |-> OrUnknown(row.tarih),
                                  raw_text |-> IF Truthy(row.raw_text)
                                               THEN row.raw_text ELSE << >>,
                                  rank |-> i ] >>

\* the loop with one try around it instead of one per candidate: the first
\* failing read ends the loop
RECURSIVE CandidatesUntilFailure(_, _, _, _, _, _)
CandidatesUntilFailure(w, table, fails, hs, lo, hi) ==
  IF lo > hi THEN << >>
  ELSE IF lo = hi
       THEN CandidateOf(w, table, { r \in 0..hi : \E f \in fails : f <= r },
                        lo, hs[lo + 1])
  ELSE LET mid == (lo + hi) \div 2
       IN  CandidatesUntilFailure(w, table, fails, hs, lo, mid)
             \o CandidatesUntilFailure(w, table, fails, hs, mid + 1, hi)

\* the loop of lines 268-316 over the hits number lo..hi, in order (the
\* range is halved at each step)
RECURSIVE CandidatesIn(_, _, _, _, _, _)
CandidatesIn(w, table, fails, hs, lo, hi) ==
  IF lo > hi THEN << >>
  ELSE IF lo = hi THEN CandidateOf(w, table, fails, lo, hs[lo + 1])
  ELSE LET mid == (lo + hi) \div 2
       IN  CandidatesIn(w, table, fails, hs, lo, mid)
             \o CandidatesIn(w, table, fails, hs, mid + 1, hi)

\* _search_beneficial_decisions: hs is what self.index.search returned for
\* the enhanced query, fails the ranks whose store read raises
search_beneficial_decisions(s, query, intent_arg, w, hs, fails, o) ==
  LET k == extract_search_keywords(s, query, o)
  IN  [self |-> k.self, keywords |-> k.ret, hit |-> k.hit, called |-> k.called,
       raised |-> k.raised,
       ret |-> IF k.raised THEN << >>
               ELSE CandidatesIn(w, ScoreTable(w, k.ret), fails, hs, 0, Len(hs) - 1)]

---------------------------------------------------------------------------
(* Ranking *)

\* the entries of lst whose score is in scores, grouped by score, the
\* highest score first, each group in the order it has in lst
RECURSIVE Buckets(_, _)
Buckets(lst, scores) ==
  IF scores = {} THEN << >>
  ELSE LET top == CHOOSE v \in scores : \A u \in scores : u <= v
           AtTop(x) == x.score = top
       IN  SelectSeq(lst, AtTop) \o Buckets(lst, scores \ { top })

\* lst backwards
Reverse(lst) == [i \in 1..Len(lst) |-> lst[Len(lst) + 1 - i]]

\* a descending sort made of an ascending stable sort and a reversal: the
\* entries of equal score come out in reverse order
sort_then_reverse(lst) ==
  Buckets(Reverse(lst), { lst[i].score : i \in 1..Len(lst) })

\* all_results.sort(key=lambda x: x["score"], reverse=True): list.sort is
\* stable, also under reverse=True
sort_by_score(lst) == Buckets(lst, { lst[i].score : i \in 1..Len(lst) })

---------------------------------------------------------------------------
(* Explanation *)

DigitChar(d) ==
  CASE d = 0 -> "0" [] d = 1 -> "1" [] d = 2 -> "2" [] d = 3 -> "3"
    [] d = 4 -> "4" [] d = 5 -> "5" [] d = 6 -> "6" [] d = 7 -> "7"
    [] d = 8 -> "8" [] d = 9 -> "9"

RECURSIVE Digits(_)
Digits(n) ==
  IF n < 10 THEN << DigitChar(n) >>
  ELSE Digits(n \div 10) \o << DigitChar(n % 10) >>

\* f"{x:.1%}" of a score in 1/10000
Percent(x) ==
  LET tenths == (x + 5) \div 10
  IN  Digits(tenths \div 10) \o << ".", DigitChar(tenths % 10), "%" >>

RECURSIVE FallbackLines(_, _)
FallbackLines(i, lst) ==
  IF i > Len(lst) THEN << >>
  ELSE LET r == lst[i]
       IN  Digits(i) \o << ".", " ", "*", "*" >> \o r.daire
             \o << "*", "*", " ", "(" >> \o r.esas \o << "/" >> \o r.karar
             \o << ")", ":", "\n" >>
             \o FB_SIM \o Percent(r.semantic_score)
             \o FB_KW \o Percent(r.keyword_score)
             \o FB_BEN \o Percent(r.benefit_score) \o << "\n" >>
             \o FB_LINE1 \o FB_LINE2
             \o FallbackLines(i + 1, lst)

\* _fallback_explanation
fallback_explanation(top_3_results) ==
  FB_HEADER \o FallbackLines(1, top_3_results) \o FB_CLOSING

\* _explain_top_3_benefits without the guard of lines 322-323
explain_without_guard(s, query, top_3_results, o) ==
  LET r == call_mistral_minimal(s, o)
  IN  [self |-> r.self, called |-> TRUE, raised |-> r.raised,
       ret |-> IF r.text = << >> THEN fallback_explanation(top_3_results)
               ELSE r.text]

\* _explain_top_3_benefits
explain_top_3_benefits(s, query, top_3_results, o) ==
  IF Len(top_3_results) < 3
  THEN [self |-> s, called |-> FALSE, raised |-> FALSE, ret |-> INSUFFICIENT]
  ELSE LET r == call_mistral_minimal(s, o)
       IN  [self |-> r.self, called |-> TRUE, raised |-> r.raised,
            ret |-> IF r.text = << >> THEN fallback_explanation(top_3_results)
                    ELSE r.text]

---------------------------------------------------------------------------
(* The index, the metadata and the decision store *)

\* Yargıtay 2. Hukuk Dairesi
DAIRE_1 == <<"Y","a","r","g","i~","t","a","y"," ","2","."," ","H","u","k","u","k"," ","D","a","i","r","e","s","i">>
\* Yargıtay Hukuk Genel Kurulu
DAIRE_2 == <<"Y","a","r","g","i~","t","a","y"," ","H","u","k","u","k"," ","G","e","n","e","l"," ","K","u","r","u","l","u">>
\* Anayasa Mahkemesi 2023
DAIRE_5 == <<"A","n","a","y","a","s","a"," ","M","a","h","k","e","m","e","s","i"," ","2","0","2","3">>
\* Nafaka davası kabul edildi
TEXT_1 == <<"N","a","f","a","k","a"," ","d","a","v","a","s","i~"," ","k","a","b","u","l"," ","e","d","i","l","d","i">>
\* velayet kanun
TEXT_3 == <<"v","e","l","a","y","e","t"," ","k","a","n","u","n">>
\* nafaka kabul edildi uygun bulundu doğru bulundu hukuka uygun adil
TEXT_5 == <<"n","a","f","a","k","a"," ","k","a","b","u","l"," ","e","d","i","l","d","i"," ","u","y","g","u","n"," ","b","u","l","u","n","d","u"," ","d","o","g~","r","u"," ","b","u","l","u","n","d","u"," ","h","u","k","u","k","a"," ","u","y","g","u","n"," ","a","d","i","l">>
\* Nafaka davası
SNIP_1 == <<"N","a","f","a","k","a"," ","d","a","v","a","s","i~">>
\* boşanma kararı
SNIP_2 == <<"b","o","s~","a","n","m","a"," ","k","a","r","a","r","i~">>
\* velayet
SNIP_3 == <<"v","e","l","a","y","e","t">>
\* miras
SNIP_4 == <<"m","i","r","a","s">>
\* nafaka kabul
SNIP_5 == <<"n","a","f","a","k","a"," ","k","a","b","u","l">>
\* 2021/10
ESAS_1 == <<"2","0","2","1","/","1","0">>
\* 2022/5
KARAR_1 == <<"2","0","2","2","/","5">>
\* 01.02.2022
TARIH_1 == <<"0","1",".","0","2",".","2","0","2","2">>

decisions_with_rows == { 1, 2, 3, 5 }

\* data/decisions.sqlite: decision 2 has no esas, tarih and raw_text,
\* decision 3 has no daire, decision 4 has no row
Store ==
  [ d \in decisions_with_rows |->
      CASE d = 1 -> [daire |-> DAIRE_1, esas |-> ESAS_1, karar |-> KARAR_1,
                     tarih |-> TARIH_1, raw_text |-> TEXT_1]
        [] d = 2 -> [daire |-> DAIRE_2, esas |-> None, karar |-> KARAR_1,
                     tarih |-> None, raw_text |-> None]
        [] d = 3 -> [daire |-> None, esas |-> ESAS_1, karar |-> KARAR_1,
                     tarih |-> TARIH_1, raw_text |-> TEXT_3]
        [] d = 5 -> [daire |-> DAIRE_5, esas |-> ESAS_1, karar |-> KARAR_1,
                     tarih |-> TARIH_1, raw_text |-> TEXT_5] ]

\* a chunk of data/meta.json
Chunk(d) ==
  [ id |-> d,
    snippet |-> CASE d = 1 -> SNIP_1 [] d = 2 -> SNIP_2 [] d = 3 -> SNIP_3
                  [] d = 4 -> SNIP_4 [] d = 5 -> SNIP_5 ]

\* the decision of the j-th chunk of the full index
FullCycle == << 5, 1, 2, 3, 2, 4, 1 >>

\* the index and the metadata the retriever loaded, and the store it reads
EmptyWorld == [ntotal |-> 0, meta |-> << >>, store |-> Store]
TwoWorld == [ntotal |-> 2, meta |-> << Chunk(1), Chunk(2) >>, store |-> Store]
DriftWorld ==
  [ntotal |-> MaxVectors + 1,
   meta |-> [j \in 1..MaxVectors |-> Chunk(FullCycle[((j - 1) % Len(FullCycle)) + 1])],
   store |-> Store]
FullWorld ==
  [ntotal |-> retrieve_k + MaxVectors,
   meta |-> [j \in 1..(retrieve_k + MaxVectors) |->
               Chunk(FullCycle[((j - 1) % Len(FullCycle)) + 1])],
   store |-> Store]

Worlds == { EmptyWorld, TwoWorld, DriftWorld, FullWorld }

\* the raw inner product of the p-th nearest neighbour: non-increasing in p
RawAt(p) ==
  CASE p = 1 -> 12 [] p = 2 -> 7 [] p \in 3..4 -> 4 [] p \in 5..8 -> 2
    [] p \in 9..20 -> 0 [] OTHER -> -3

\* a slot the index cannot fill: identifier -1 and the lowest score
Padding == << -1, -340282 >>

\* self.index.search(query_embedding, self.top_k * 3): the nearest vectors
\* first, in the order the embedding of the query gives them
IndexSearch(w, order) ==
  [ p \in 1..retrieve_k |->
      IF p <= Min(retrieve_k, w.ntotal)
      THEN << IF order = "asc" THEN p - 1 ELSE w.ntotal - p, RawAt(p) >>
      ELSE Padding ]

Orders == { "asc", "desc" }

\* the sets of ranks whose store read raises, per search
FailChoices ==
  { {} } \cup { {r} : r \in 0..(MaxFailRank - 1) } \cup { 0..(retrieve_k - 1) }

\* the case descriptions searched for
Queries == { Q_NAFAKA, Q_STOP }

\* what the LLM does on each of the three prompts
KeywordOutcomes ==
  { LoadFail, CallFail, Says(R_NOMARKER), Says(R_MARKER_ONLY), Says(R_KW_OK) }
IntentOutcomes == { LoadFail, Says(R_BLANK), Says(R_NOMARKER), Says(R_INT_OK) }
ExplainOutcomes == { LoadFail, Says(R_BLANK), Says(R_EXPL) }

---------------------------------------------------------------------------
(* search_beneficial_precedents *)

NoResult ==
  [top_20_results |-> << >>, top_3_results |-> << >>, explanation |-> << >>,
   intent |-> DefaultIntent, total_found |-> 0]

NoCalls == [keywords |-> 0, intent |-> 0, explain |-> 0]

NoLast ==
  [op |-> "none", query |-> << >>, outcome |-> NoCall, hit |-> FALSE,
   called |-> FALSE, keywords |-> << >>, intent |-> DefaultIntent, n |-> 0]

NoScore ==
  [op |-> "none", text |-> << >>, court |-> << >>, keywords |-> << >>,
   raised |-> FALSE, value |-> 0]

Self == [llm |-> llm, llmBuilt |-> llmBuilt, cache |-> cached_analyses]

\* line 380 left out
keep_cache(cache) == cache

\* line 380: self._cached_analyses = {}
clear_cache(cache) == EmptyDict

\* the retriever after __init__, lines 19-45
InitRetriever ==
  /\ llm = 0
  /\ llmBuilt = 0
  /\ cached_analyses = EmptyDict
  /\ world \in Worlds
  /\ pc = "idle"
  /\ case_description = << >>
  /\ keywords = << >>
  /\ intent = DefaultIntent
  /\ hits = << >>
  /\ failRanks = {}
  /\ all_results = << >>
  /\ result = NoResult
  /\ llmCalls = NoCalls
  /\ fresh = {}
  /\ staleRead = FALSE
  /\ last = NoLast
  /\ prev_query = None

\* no embedding job is running and it has written nothing
EmbedIdle ==
  /\ embed_pc = "idle"
  /\ db_decisions = << >>
  /\ all_paragraphs = << >>
  /\ embeddings = << >>
  /\ meta_data = << >>
  /\ batch_start = 0
  /\ meta_file = None
  /\ index_file = None

\* data/scraper_checkpoint.json does not exist
NoCheckpoint ==
  [exists |-> FALSE, readable |-> FALSE, last_page |-> 0, total_processed |-> 0]

\* no scraper has run
ScraperIdle ==
  /\ scraper_pc = "stopped"
  /\ site = << >>
  /\ page_number = 0
  /\ docs = << >>
  /\ todo = << >>
  /\ pending = {}
  /\ decisions = {}
  /\ checkpoint_file = NoCheckpoint
  /\ total_saved = 0
  /\ existing_urls = {}
  /\ committed_pages = {}
  /\ runs = 0

Init == InitRetriever /\ scored = NoScore /\ EmbedIdle /\ ScraperIdle

\* lines 377-384: the cache is cleared and the keywords are extracted
StartSearch(q, o) ==
  /\ pc \in { "idle", "returned", "raised" }
  /\ LET s == [Self EXCEPT !.cache = clear_cache(cached_analyses)]
         k == extract_search_keywords(s, q, o)
     IN  /\ llm' = k.self.llm
         /\ llmBuilt' = k.self.llmBuilt
         /\ cached_analyses' = k.self.cache
         /\ keywords' = k.ret
         /\ llmCalls' = [NoCalls EXCEPT !.keywords = IF k.called THEN 1 ELSE 0]
         /\ fresh' = IF k.hit \/ k.raised THEN {} ELSE {q}
         /\ staleRead' = (staleRead \/ k.hit)
         /\ pc' = IF k.raised THEN "raised" ELSE "keywords"
  /\ case_description' = q
  /\ prev_query' = IF pc = "idle" THEN None ELSE case_description
  /\ intent' = DefaultIntent
  /\ hits' = << >>
  /\ failRanks' = {}
  /\ all_results' = << >>
  /\ result' = NoResult
  /\ UNCHANGED << world, last >>
  /\ UNCHANGED aside

\* lines 386-390: the intent is extracted
IntentStep(o) ==
  /\ pc = "keywords"
  /\ LET k == extract_case_intent(Self, case_description, o)
     IN  /\ llm' = k.self.llm
         /\ llmBuilt' = k.self.llmBuilt
         /\ cached_analyses' = k.self.cache
         /\ intent' = k.ret
         /\ llmCalls' = [llmCalls EXCEPT !.intent = @ + (IF k.called THEN 1 ELSE 0)]
         /\ fresh' = IF k.hit \/ k.raised THEN fresh ELSE fresh \cup {case_description}
         /\ staleRead' = (staleRead \/ (k.hit /\ case_description \notin fresh))
         /\ pc' = IF k.raised THEN "raised" ELSE "intent"
  /\ UNCHANGED << world, case_description, keywords, hits, failRanks,
                  all_results, result, last, prev_query >>
  /\ UNCHANGED aside

\* line 394: the candidates are retrieved and scored
SearchStep(order, fails, o) ==
  /\ pc = "intent"
  /\ LET hs == IndexSearch(world, order)
         k == search_beneficial_decisions(Self, case_description, intent,
                                          world, hs, fails, o)
     IN  /\ llm' = k.self.llm
         /\ llmBuilt' = k.self.llmBuilt
         /\ cached_analyses' = k.self.cache
         /\ hits' = hs
         /\ failRanks' = fails
         /\ all_results' = k.ret
         /\ llmCalls' = [llmCalls EXCEPT !.keywords = @ + (IF k.called THEN 1 ELSE 0)]
         /\ fresh' = IF k.hit \/ k.raised THEN fresh ELSE fresh \cup {case_description}
         /\ staleRead' = (staleRead \/ (k.hit /\ case_description \notin fresh))
         /\ pc' = IF k.raised THEN "raised" ELSE "searched"
  /\ UNCHANGED << world, case_description, keywords, intent, result, last,
                  prev_query >>
  /\ UNCHANGED aside

\* lines 396-399: the candidates are sorted and sliced
RankStep ==
  /\ pc = "searched"
  /\ LET ranked == sort_by_score(all_results)
     IN  /\ all_results' = ranked
         /\ result' = [NoResult EXCEPT !.top_20_results = Take(ranked, 20),
                                       !.top_3_results = Take(ranked, 3)]
  /\ pc' = "ranked"
  /\ UNCHANGED << llm, llmBuilt, cached_analyses, world, case_description,
                  keywords, intent, hits, failRanks, llmCalls, fresh,
                  staleRead, last, prev_query >>
  /\ UNCHANGED aside

\* lines 401-411: the explanation is made and the result returned
ExplainStep(o) ==
  /\ pc = "ranked"
  /\ LET k == explain_top_3_benefits(Self, case_description,
                                     result.top_3_results, o)
     IN  /\ llm' = k.self.llm
         /\ llmBuilt' = k.self.llmBuilt
         /\ llmCalls' = [llmCalls EXCEPT !.explain = @ + (IF k.called THEN 1 ELSE 0)]
         /\ result' = IF k.raised THEN result
                      ELSE [result EXCEPT !.explanation = k.ret,
                                          !.intent = intent,
                                          !.total_found = Len(all_results)]
         /\ pc' = IF k.raised THEN "raised" ELSE "returned"
  /\ UNCHANGED << cached_analyses, world, case_description, keywords, intent,
                  hits, failRanks, all_results, fresh, staleRead, last,
                  prev_query >>
  /\ UNCHANGED aside

Next ==
  \/ \E q \in Queries, o \in KeywordOutcomes : StartSearch(q, o)
  \/ \E o \in IntentOutcomes : IntentStep(o)
  \/ \E order \in Orders, fails \in FailChoices :
       \E o \in (IF case_description \in DOMAIN cached_analyses
                 THEN { NoCall } ELSE KeywordOutcomes) :
         SearchStep(order, fails, o)
  \/ RankStep
  \/ \E o \in (IF Len(result.top_3_results) < 3
               THEN { NoCall } ELSE ExplainOutcomes) :
       ExplainStep(o)

Spec == Init /\ [][Next]_vars

---------------------------------------------------------------------------
(* The query-understanding methods called directly *)

\* direct calls made on one retriever
MaxUnitCalls == 2

UnitQueries == { Q_NAFAKA, Q_EMSAL, Q_KIRA, Q_STOP }

UnitKeywordOutcomes ==
  { LoadFail, CallFail, Says(R_BLANK), Says(R_NOMARKER), Says(R_MARKER_ONLY),
    Says(R_KW_OK), Says(R_KW_TRAIL) }

UnitIntentOutcomes ==
  { LoadFail, CallFail, Says(R_BLANK), Says(R_NOMARKER), Says(R_INT_OK),
    Says(R_INT_PART) }

InitUnit == Init /\ world = EmptyWorld

\* retriever._extract_search_keywords(q)
DirectKeywords(q, o) ==
  /\ pc = "idle"
  /\ last.n < MaxUnitCalls
  /\ LET k == extract_search_keywords(Self, q, o)
     IN  /\ llm' = k.self.llm
         /\ llmBuilt' = k.self.llmBuilt
         /\ cached_analyses' = k.self.cache
         /\ last' = [op |-> "keywords", query |-> q, outcome |-> o,
                     hit |-> k.hit, called |-> k.called, keywords |-> k.ret,
                     intent |-> DefaultIntent, n |-> last.n + 1]
  /\ UNCHANGED << world, pc, case_description, keywords, intent, hits,
                  failRanks, all_results, result, llmCalls, fresh, staleRead,
                  prev_query >>
  /\ UNCHANGED aside

\* retriever._extract_case_intent(q)
DirectIntent(q, o) ==
  /\ pc = "idle"
  /\ last.n < MaxUnitCalls
  /\ LET k == extract_case_intent(Self, q, o)
     IN  /\ llm' = k.self.llm
         /\ llmBuilt' = k.self.llmBuilt
         /\ cached_analyses' = k.self.cache
         /\ last' = [op |-> "intent", query |-> q, outcome |-> o,
                     hit |-> k.hit, called |-> k.called, keywords |-> << >>,
                     intent |-> k.ret, n |-> last.n + 1]
  /\ UNCHANGED << world, pc, case_description, keywords, intent, hits,
                  failRanks, all_results, result, llmCalls, fresh, staleRead,
                  prev_query >>
  /\ UNCHANGED aside

NextUnit ==
  \/ \E q \in UnitQueries :
       \E o \in (IF q \in DOMAIN cached_analyses
                 THEN { NoCall } ELSE UnitKeywordOutcomes) :
         DirectKeywords(q, o)
  \/ \E q \in UnitQueries :
       \E o \in (IF q \in DOMAIN cached_analyses
                      /\ "case_type" \in DOMAIN cached_analyses[q]
                 THEN { NoCall } ELSE UnitIntentOutcomes) :
         DirectIntent(q, o)

SpecUnit == InitUnit /\ [][NextUnit]_vars

---------------------------------------------------------------------------
(* The scorers called directly *)

\* kabul edildi uygun bulundu doğru bulundu hukuka uygun adil haklı yerinde geçerli kanun
TEXT_CAP == <<"k","a","b","u","l"," ","e","d","i","l","d","i"," ","u","y","g","u","n"," ","b","u","l","u","n","d","u"," ","d","o","g~","r","u"," ","b","u","l","u","n","d","u"," ","h","u","k","u","k","a"," ","u","y","g","u","n"," ","a","d","i","l"," ","h","a","k","l","i~"," ","y","e","r","i","n","d","e"," ","g","e","c~","e","r","l","i"," ","k","a","n","u","n">>
\* Taraflar arasındaki boşanma ve nafaka davası
TEXT_TARAFLAR == <<"T","a","r","a","f","l","a","r"," ","a","r","a","s","i~","n","d","a","k","i"," ","b","o","s~","a","n","m","a"," ","v","e"," ","n","a","f","a","k","a"," ","d","a","v","a","s","i~">>
\* Asliye Hukuk Mahkemesi
COURT_ASLIYE == <<"A","s","l","i","y","e"," ","H","u","k","u","k"," ","M","a","h","k","e","m","e","s","i">>
\* Danıştay 2024
COURT_DANISTAY == <<"D","a","n","i~","s~","t","a","y"," ","2","0","2","4">>
\* Anayasa Mah.
COURT_ANAYASA_MAH == <<"A","n","a","y","a","s","a"," ","M","a","h",".">>
\* boşanma
KW_BOSANMA == <<"b","o","s~","a","n","m","a">>
\* velayet
KW_VELAYET == <<"v","e","l","a","y","e","t">>
\* NAFAKA
KW_NAFAKA_UPPER == <<"N","A","F","A","K","A">>
\* davası
KW_DAVASI == <<"d","a","v","a","s","i~">>

\* decision texts, court strings (None is a NULL daire) and keyword lists
Texts == { << >>, TEXT_1, TEXT_3, TEXT_5, TEXT_CAP, TEXT_TARAFLAR }

Courts ==
  { None, << >>, DAIRE_1, DAIRE_2, DAIRE_5, COURT_ASLIYE, COURT_DANISTAY,
    COURT_ANAYASA_MAH }

KeywordLists ==
  { << >>, << KW_BOSANMA, KW_VELAYET >>, << KW_NAFAKA_UPPER >>,
    << KW_VELAYET >>, << KW_NAFAKA_UPPER, KW_BOSANMA, KW_DAVASI >>,
    << KW_BOSANMA, KW_VELAYET, KW_DAVASI >> }

InitScorers ==
  /\ InitRetriever
  /\ world = EmptyWorld
  /\ scored \in [op : {"none"}, text : Texts, court : Courts,
                  keywords : KeywordLists, raised : {FALSE}, value : {0}]
  /\ EmbedIdle
  /\ ScraperIdle

\* retriever._calculate_benefit_score(text, court)
ScoreBenefit ==
  /\ scored.op = "none"
  /\ LET r == calculate_benefit_score(scored.text, scored.court)
     IN  scored' = [scored EXCEPT !.op = "benefit", !.raised = r.raised,
                                  !.value = r.value]
  /\ UNCHANGED << llm, llmBuilt, cached_analyses, world, pc, case_description,
                  keywords, intent, hits, failRanks, all_results, result,
                  llmCalls, fresh, staleRead, last, prev_query, embedVars,
                  scraperVars >>

\* retriever._keyword_match_score(text, keywords)
ScoreKeywords ==
  /\ scored.op = "none"
  /\ scored' = [scored EXCEPT !.op = "keyword",
                              !.value = keyword_match_score(scored.text,
                                                            scored.keywords)]
  /\ UNCHANGED << llm, llmBuilt, cached_analyses, world, pc, case_description,
                  keywords, intent, hits, failRanks, all_results, result,
                  llmCalls, fresh, staleRead, last, prev_query, embedVars,
                  scraperVars >>

NextScorers == ScoreBenefit \/ ScoreKeywords

SpecScorers == InitScorers /\ [][NextScorers]_vars

---------------------------------------------------------------------------
(* The embedding job, src/src/embed.py *)

\* batch_size, line 135
batch_size == 32

\* decisions in the store and chunks of one decision
MaxDecisions == 10
MaxChunksPer == 16

\* the k-th chunk that paragraphs() yields for decision d: a stripped,
\* non-empty text
Paragraph(d, k) == << "chunk", d, k >>

\* model.encode of one text: its vector
Encode1(text) == [vector_of |-> text]

\* model.encode(batch_texts) with the vectors in reverse order
encode_reversed(texts) == [n \in 1..Len(texts) |-> Encode1(texts[Len(texts) + 1 - n])]

\* model.encode(batch_texts): one vector per text, in the order of the texts
encode(texts) == [n \in 1..Len(texts) |-> Encode1(texts[n])]

\* the rows SELECT id, raw_text returns for a store of n decisions, each row
\* with the number of chunks its text has (none for a blank text)
DbRows(n, shift) ==
  [d \in 1..n |-> [id |-> d, chunks |-> (d * 5 + shift) % (MaxChunksPer + 1)]]

\* the loop of lines 122-130 over the rows lo..hi (halved at each step)
RECURSIVE ChunkRows(_, _, _)
ChunkRows(rows, lo, hi) ==
  IF lo > hi THEN << >>
  ELSE IF lo = hi
       THEN [k \in 1..rows[lo].chunks |->
               [id |-> rows[lo].id, snippet |-> Paragraph(rows[lo].id, k)]]
  ELSE LET mid == (lo + hi) \div 2
       IN  ChunkRows(rows, lo, mid) \o ChunkRows(rows, mid + 1, hi)

\* lst[i:j] of a Python list, 0 <= i <= j
Slice(lst, i, j) == SubSeq(lst, i + 1, Min(j, Len(lst)))

\* the files a previous run of the job left
PreviousFiles ==
  LET old == << [id |-> 1, snippet |-> Paragraph(1, 1)],
                [id |-> 1, snippet |-> Paragraph(1, 2)] >>
  IN  { [meta |-> None, index |-> None],
        [meta |-> old, index |-> encode(<< Paragraph(1, 1), Paragraph(1, 2) >>)] }

InitEmbed ==
  /\ InitRetriever
  /\ world = EmptyWorld
  /\ scored = NoScore
  /\ embed_pc = "start"
  /\ db_decisions \in { DbRows(n, shift) : n \in 0..MaxDecisions,
                                            shift \in 0..MaxChunksPer }
  /\ all_paragraphs = << >>
  /\ embeddings = << >>
  /\ meta_data = << >>
  /\ batch_start = 0
  /\ \E f \in PreviousFiles : meta_file = f.meta /\ index_file = f.index
  /\ ScraperIdle

RetrieverVars ==
  << llm, llmBuilt, cached_analyses, world, pc, case_description, keywords,
     intent, hits, failRanks, all_results, result, llmCalls, fresh, staleRead,
     last, prev_query, scored >>

\* lines 107-132: the rows are read and chunked
ChunkDecisions ==
  /\ embed_pc = "start"
  /\ all_paragraphs' = ChunkRows(db_decisions, 1, Len(db_decisions))
  /\ embed_pc' = "embedding"
  /\ UNCHANGED << db_decisions, embeddings, meta_data, batch_start, meta_file,
                  index_file, RetrieverVars, scraperVars >>

\* lines 139-144: one batch is embedded
EmbedBatch ==
  /\ embed_pc = "embedding"
  /\ batch_start < Len(all_paragraphs)
  /\ LET batch_paragraphs == Slice(all_paragraphs, batch_start,
                                   batch_start + batch_size)
         batch_texts == [n \in 1..Len(batch_paragraphs) |->
                           batch_paragraphs[n].snippet]
     IN  /\ embeddings' = embeddings \o encode(batch_texts)
         /\ meta_data' = meta_data \o batch_paragraphs
  /\ batch_start' = batch_start + batch_size
  /\ UNCHANGED << embed_pc, db_decisions, all_paragraphs, meta_file,
                  index_file, RetrieverVars, scraperVars >>

\* lines 147-151: the loop is over, the metadata is written
SaveMeta ==
  /\ embed_pc = "embedding"
  /\ batch_start >= Len(all_paragraphs)
  /\ meta_file' = meta_data
  /\ embed_pc' = "meta_saved"
  /\ UNCHANGED << db_decisions, all_paragraphs, embeddings, meta_data,
                  batch_start, index_file, RetrieverVars, scraperVars >>

\* lines 154-157: the index is built and written; embeddings.shape[1]
\* raises IndexError when there is no embedding
WriteIndex ==
  /\ embed_pc = "meta_saved"
  /\ IF embeddings = << >>
     THEN embed_pc' = "raised" /\ UNCHANGED index_file
     ELSE embed_pc' = "done" /\ index_file' = embeddings
  /\ UNCHANGED << db_decisions, all_paragraphs, embeddings, meta_data,
                  batch_start, meta_file, RetrieverVars, scraperVars >>

NextEmbed == ChunkDecisions \/ EmbedBatch \/ SaveMeta \/ WriteIndex

SpecEmbed == InitEmbed /\ [][NextEmbed]_vars

---------------------------------------------------------------------------
(* The scraper, src/src/mcp_scraper.py *)

\* documents per full page of the search tool, pages of the listing, runs
PageSize == 2
MaxPages == 3
MaxRuns == 3

\* a checkpoint file cut short by a crash while it was written
Corrupt ==
  [exists |-> TRUE, readable |-> FALSE, last_page |-> 0, total_processed |-> 0]

\* the listing of the search tool: n documents, the third without documentId
SiteOf(n) == [k \in 1..n |-> [documentId |-> IF k = 3 THEN 0 ELSE k]]

\* the decisions of page p, line 146-148
PageOf(listing, p) == Slice(listing, (p - 1) * PageSize, p * PageSize)

\* _load_checkpoint of a readable or absent file
load_checkpoint(file) ==
  IF file.exists
  THEN [last_page |-> file.last_page, total_processed |-> file.total_processed]
  ELSE [last_page |-> 0, total_processed |-> 0]

\* a start one page further than the checkpoint says
start_page_skipping(checkpoint) == checkpoint.last_page + 2

\* line 128
start_page(checkpoint) == checkpoint.last_page + 1

InitScraper ==
  /\ InitRetriever
  /\ world = EmptyWorld
  /\ scored = NoScore
  /\ EmbedIdle
  /\ scraper_pc = "stopped"
  /\ site \in { SiteOf(n) : n \in 0..(MaxPages * PageSize) }
  /\ page_number = 0
  /\ docs = << >>
  /\ todo = << >>
  /\ pending = {}
  /\ decisions = {}
  /\ checkpoint_file = NoCheckpoint
  /\ total_saved = 0
  /\ existing_urls = {}
  /\ committed_pages = {}
  /\ runs = 0

\* lines 98-143: a run starts; json.load of a cut checkpoint file raises
StartRun ==
  /\ scraper_pc \in { "stopped", "finished" }
  /\ runs < MaxRuns
  /\ runs' = runs + 1
  /\ IF checkpoint_file = Corrupt
     THEN /\ scraper_pc' = "stopped"
          /\ UNCHANGED << page_number, total_saved, existing_urls >>
     ELSE LET checkpoint == load_checkpoint(checkpoint_file)
          IN  /\ page_number' = start_page(checkpoint)
              /\ total_saved' = checkpoint.total_processed
              /\ existing_urls' = { r.url : r \in decisions }
              /\ scraper_pc' = "search"
  /\ docs' = << >>
  /\ todo' = << >>
  /\ pending' = {}
  /\ UNCHANGED << site, decisions, checkpoint_file, committed_pages,
                  RetrieverVars, embedVars >>

\* lines 146-156: a page is fetched; an empty page ends the run
SearchPage ==
  /\ scraper_pc = "search"
  /\ docs' = PageOf(site, page_number)
  /\ todo' = docs'
  /\ scraper_pc' = IF docs' = << >> THEN "finished" ELSE "page"
  /\ UNCHANGED << site, page_number, pending, decisions, checkpoint_file,
                  total_saved, existing_urls, committed_pages, runs,
                  RetrieverVars, embedVars >>

\* lines 157-192: one document of the page; fetched tells whether its text
\* could be retrieved
HandleDocument(fetched) ==
  /\ scraper_pc = "page"
  /\ todo # << >>
  /\ LET doc_id == Head(todo).documentId
     IN  IF doc_id = 0 \/ doc_id \in existing_urls
         THEN UNCHANGED << pending, total_saved, existing_urls >>
         ELSE /\ pending' = pending \cup
                              { [url |-> doc_id,
                                 raw_text |-> IF fetched THEN "markdown" ELSE ""] }
              /\ total_saved' = total_saved + 1
              /\ existing_urls' = existing_urls \cup { doc_id }
  /\ todo' = Tail(todo)
  /\ UNCHANGED << scraper_pc, site, page_number, docs, decisions,
                  checkpoint_file, committed_pages, runs, RetrieverVars,
                  embedVars >>

\* line 194: conn.commit()
Commit ==
  /\ scraper_pc = "page"
  /\ todo = << >>
  /\ decisions' = decisions \cup pending
  /\ pending' = {}
  /\ committed_pages' = committed_pages \cup { page_number }
  /\ scraper_pc' = "committed"
  /\ UNCHANGED << site, page_number, docs, todo, checkpoint_file, total_saved,
                  existing_urls, runs, RetrieverVars, embedVars >>

\* lines 197-205: the checkpoint is written, then the next page or the end
SaveCheckpoint ==
  /\ scraper_pc = "committed"
  /\ checkpoint_file' = [exists |-> TRUE, readable |-> TRUE,
                         last_page |-> page_number,
                         total_processed |-> total_saved]
  /\ IF Len(docs) = PageSize
     THEN page_number' = page_number + 1 /\ scraper_pc' = "search"
     ELSE page_number' = page_number /\ scraper_pc' = "finished"
  /\ UNCHANGED << site, docs, todo, pending, decisions, total_saved,
                  existing_urls, committed_pages, runs, RetrieverVars,
                  embedVars >>

\* the process dies: the open transaction is lost with the locals; a crash
\* inside _save_checkpoint may leave the file cut short
Crash(cut) ==
  /\ scraper_pc \in { "search", "page", "committed" }
  /\ checkpoint_file' = IF scraper_pc = "committed" /\ cut
                        THEN Corrupt ELSE checkpoint_file
  /\ scraper_pc' = "stopped"
  /\ pending' = {}
  /\ page_number' = 0
  /\ docs' = << >>
  /\ todo' = << >>
  /\ total_saved' = 0
  /\ existing_urls' = {}
  /\ UNCHANGED << site, decisions, committed_pages, runs, RetrieverVars,
                  embedVars >>

NextScraper ==
  \/ StartRun
  \/ SearchPage
  \/ \E fetched \in BOOLEAN : HandleDocument(fetched)
  \/ Commit
  \/ SaveCheckpoint
  \/ \E cut \in BOOLEAN : Crash(cut)

SpecScraper == InitScraper /\ [][NextScraper]_vars

---------------------------------------------------------------------------
(* Properties *)

\* the candidates a state holds: the list being built or ranked, and the
\* two slices of the result
Candidates ==
  { all_results[i] : i \in 1..Len(all_results) }
    \cup { result.top_20_results[i] : i \in 1..Len(result.top_20_results) }
    \cup { result.top_3_results[i] : i \in 1..Len(result.top_3_results) }

Ranked == pc \in { "ranked", "returned" }

\* C2: top_3_results is the first min(3, n) entries of top_20_results, which
\* is the first min(20, n) entries of the ranked list of n candidates; the
\* list is in non-increasing score order, candidates of equal score keep the
\* order in which the index retrieved them, and total_found is n.
C2_SlicesAndStableOrder ==
  Ranked =>
    LET n == Len(all_results)
    IN  /\ Len(result.top_3_results) = Min(3, n)
        /\ Len(result.top_20_results) = Min(20, n)
        /\ \A i \in 1..Len(result.top_3_results) :
             result.top_3_results[i] = result.top_20_results[i]
        /\ \A i \in 1..Len(result.top_20_results) :
             result.top_20_results[i] = all_results[i]
        /\ \A i, j \in 1..n :
             i < j =>
               /\ all_results[i].score >= all_results[j].score
               /\ all_results[i].score = all_results[j].score
                    => all_results[i].rank < all_results[j].rank
        /\ pc = "returned" => result.total_found = n

\* C2 witness: more than 20 candidates were ranked, two of them tie, and
\* the sort moved a later hit in front of an earlier one.
C2_Witness ==
  /\ pc = "returned"
  /\ Len(all_results) > 20
  /\ Len(result.top_20_results) = 20
  /\ \E i, j \in 1..Len(all_results) :
       i < j /\ all_results[i].score = all_results[j].score
  /\ \E i, j \in 1..Len(all_results) :
       i < j /\ all_results[i].rank > all_results[j].rank

\* C3: with fewer than 3 candidates the explanation is exactly the fixed
\* insufficient-precedents message and the explanation step calls no LLM.
C3_InsufficientPrecedents ==
  (pc = "returned" /\ Len(result.top_3_results) < 3) =>
    /\ result.explanation = INSUFFICIENT
    /\ llmCalls.explain = 0

\* C3 witness: a search returned with exactly 2 candidates.
C3_Witness ==
  /\ pc = "returned"
  /\ Len(result.top_3_results) = 2
  /\ result.explanation = INSUFFICIENT

\* C4: the cache is emptied at the start of every search, so no entry made
\* by an earlier search is ever read, and while a search runs (and after it
\* returned) the cache holds at most the entry of that search's query.
C4_CacheClearedPerSearch ==
  /\ staleRead = FALSE
  /\ DOMAIN cached_analyses \subseteq { case_description }
  /\ pc = "idle" => cached_analyses = EmptyDict

\* C4 witness: a second search with the query of the first one computed its
\* keywords anew, with an LLM call, and scored its candidates.
C4_Witness ==
  /\ pc = "searched"
  /\ prev_query = case_description
  /\ llmCalls.keywords = 1
  /\ case_description \in fresh

\* the LLM gave nothing to parse keywords from: the call failed, the text
\* is empty, or the text has no KEYWORDS marker
KeywordLlmYieldsNothing(o) ==
  \/ o.kind \in { "load_fail", "call_fail" }
  \/ o.kind = "text" /\ Strip(o.text) = << >>
  \/ o.kind = "text" /\ ~Contains(KEYWORDS_MARKER, o.text)

\* the three tiers as the claim states them
C5_Tier1(q) == SelectSeq(legal_terms, LAMBDA t : Contains(t, Lower(q)))
C5_Tier2(q) == SelectSeq(important_words, LAMBDA t : Contains(t, Lower(q)))
C5_Tier3(q) ==
  LET tokens == SelectSeq(SplitWs(Lower(q)),
                          LAMBDA t : Len(t) > 3 /\ ~InList(t, common_words))
  IN  SubSeq(tokens, 1, Min(5, Len(tokens)))

\* C5: when the LLM path yields nothing, the keywords are the first
\* non-empty list among the legal terms found in the lowercased query, the
\* generic-case words found in it, and its first 5 tokens that are no stop
\* words and longer than 3 characters; so they are non-empty whenever one
\* of the three is.
C5_FallbackTiers ==
  (last.op = "keywords" /\ last.called /\ KeywordLlmYieldsNothing(last.outcome)) =>
    LET q == last.query
    IN  /\ last.keywords =
             IF C5_Tier1(q) # << >> THEN C5_Tier1(q)
             ELSE IF C5_Tier2(q) # << >> THEN C5_Tier2(q)
             ELSE C5_Tier3(q)
        /\ (C5_Tier1(q) # << >> \/ C5_Tier2(q) # << >> \/ C5_Tier3(q) # << >>)
             => last.keywords # << >>

\* C5 witness: the LLM failed on a query without any vocabulary term and
\* with more than 5 eligible tokens; the first 5 of them were returned.
C5_Witness ==
  /\ last.op = "keywords"
  /\ last.called
  /\ last.outcome.kind = "call_fail"
  /\ last.query = Q_KIRA
  /\ Len(last.keywords) = 5
  /\ last.keywords[1] = << "k", "i", "r", "a" >>

\* the non-empty trimmed tokens after the marker
NonEmptyTokens(text) ==
  SelectSeq(ParseKeywords(Strip(text)), LAMBDA t : t # << >>)

\* C6: when the response contains the KEYWORDS marker, the keywords are the
\* comma-split, trimmed tokens without the empty ones; if none remains, the
\* fallback applies.
C6_EmptyTokensDiscarded ==
  (/\ last.op = "keywords"
   /\ last.called
   /\ last.outcome.kind = "text"
   /\ Contains(KEYWORDS_MARKER, last.outcome.text)) =>
    /\ \A i \in 1..Len(last.keywords) : last.keywords[i] # << >>
    /\ last.keywords =
         IF NonEmptyTokens(last.outcome.text) # << >>
         THEN NonEmptyTokens(last.outcome.text)
         ELSE FallbackKeywords(last.query)

\* the LLM gave nothing to parse an intent from: the call failed, the text
\* is empty, or no line of it holds one of the three labels
IntentLlmYieldsNothing(o) ==
  \/ o.kind \in { "load_fail", "call_fail" }
  \/ /\ o.kind = "text"
     /\ ~Contains(DAVA_TURU, o.text)
     /\ ~Contains(ANA_KONU, o.text)
     /\ ~Contains(ARAMA_TERIMLERI, o.text)

\* C7: when the LLM is unavailable or its output has none of the expected
\* lines, the intent is category "Genel", empty topic, not criminal, and the
\* first 5 whitespace tokens of the raw query as search terms.
C7_IntentFallback ==
  (last.op = "intent" /\ last.called /\ IntentLlmYieldsNothing(last.outcome)) =>
    last.intent = [case_type |-> GENEL, main_topic |-> << >>,
                   search_terms |-> Take(SplitWs(last.query), 5),
                   is_criminal |-> FALSE]

\* C8: whatever the LLM does on the three prompts and whichever store reads
\* fail, the search never raises and the returned explanation is non-empty.
C8_AlwaysReturnsExplanation ==
  /\ pc # "raised"
  /\ pc = "returned" => result.explanation # << >>

\* C8 witness: every LLM call of a search failed before a model was loaded,
\* a store read failed too, and the search returned the templated
\* explanation of its 3 best candidates.
C8_Witness ==
  /\ pc = "returned"
  /\ llm = 0
  /\ llmCalls = [keywords |-> 1, intent |-> 1, explain |-> 1]
  /\ failRanks # {}
  /\ Len(result.top_3_results) = 3
  /\ result.explanation = fallback_explanation(result.top_3_results)

\* C9: every candidate comes from a returned identifier i with
\* 0 <= i < len(metadata) and from the metadata entry at position i;
\* identifiers outside the range yield no candidate and fail no search.
C9_CandidatesFromValidIds ==
  /\ pc # "raised"
  /\ \A k \in 1..Len(all_results) :
       LET c == all_results[k]
           idx == hits[c.rank + 1][1]
       IN  /\ 0 <= idx
           /\ idx < Len(world.meta)
           /\ c.id = world.meta[idx + 1].id
           /\ c.snippet = world.meta[idx + 1].snippet

\* C10: when the index holds fewer than 3 chunks, the search returns with
\* total_found < 3, fewer than 3 highlights and the insufficient-precedents
\* message; no slot is filled with a repeated candidate.
C10_FewChunksReportedInsufficient ==
  (pc = "returned" /\ world.ntotal < 3) =>
    /\ result.total_found < 3
    /\ result.total_found <= world.ntotal
    /\ Len(result.top_3_results) < 3
    /\ result.explanation = INSUFFICIENT

\* what hit number i yields when its store read does not fail
ExpectedCandidate(table, i) == CandidateOf(world, table, {}, i, hits[i + 1])

\* C11: a store read that fails, or that finds no row, omits exactly the
\* candidate of that hit: the result holds, in retrieval order and with the
\* scores they have without any failure, the candidates of all other hits.
C11_FailedReadOmitsOnlyThatChunk ==
  pc = "searched" =>
    LET table == ScoreTable(world, keywords)
        kept == { i \in 0..(Len(hits) - 1) :
                    i \notin failRanks /\ ExpectedCandidate(table, i) # << >> }
    IN  /\ \A j \in 1..Len(all_results) :
              /\ all_results[j].rank \in kept
              /\ all_results[j] = ExpectedCandidate(table, all_results[j].rank)[1]
        /\ \A i \in kept : \E j \in 1..Len(all_results) : all_results[j].rank = i
        /\ \A j \in 1..(Len(all_results) - 1) :
              all_results[j].rank < all_results[j + 1].rank

\* one read fails for a hit that yields a candidate otherwise, another hit
\* has no row, and candidates come before and after both
C11_Witness ==
  /\ pc = "searched"
  /\ LET table == ScoreTable(world, keywords)
         Around(i) == /\ \E j \in 1..Len(all_results) : all_results[j].rank < i
                      /\ \E j \in 1..Len(all_results) : all_results[j].rank > i
     IN  /\ \E r \in failRanks :
               /\ failRanks = {r}
               /\ ExpectedCandidate(table, r) # << >>
               /\ Around(r)
         /\ \E i \in 0..(Len(hits) - 1) :
               /\ hits[i + 1][1] >= 0
               /\ hits[i + 1][1] < Len(world.meta)
               /\ PyIndex(world.meta, hits[i + 1][1]).id \notin DOMAIN world.store
               /\ Around(i)

\* the terms of a vocabulary found in a lowercased text
Found(vocabulary, text) ==
  LET text_lower == Lower(text)
      In(term) == Contains(term, text_lower)
  IN  Count(vocabulary, In)

\* the hierarchy bonus as stated: by the markers alone
HierarchyBonus(court) ==
  LET court_lower == Lower(court)
  IN  IF Contains(GENEL_KURUL, court_lower) \/ Contains(ANAYASA, court_lower)
      THEN 3000
      ELSE IF Contains(YARGITAY, court_lower) \/ Contains(DANISTAY, court_lower)
           THEN 2000
           ELSE 0

RecencyBonus(court) ==
  IF Contains(Y2023, court) \/ Contains(Y2024, court) THEN 1000 ELSE 0

\* C12: for a court string, the benefit score is min(1, 0.1 * positive terms
\* found + 0.05 * principle terms found + hierarchy bonus + recency bonus),
\* the hierarchy bonus being 0.3 with a general-assembly or constitutional
\* marker, else 0.2 with a top-court marker, else 0; it lies in [0, 1], and
\* "Yargitay Hukuk Genel Kurulu" with no other cue scores 0.3.
C12_BenefitScoreFormula ==
  (scored.op = "benefit" /\ scored.court # None) =>
    /\ ~scored.raised
    /\ scored.value =
         Min(10000, 1000 * Found(positive_outcomes, scored.text)
                      + 500 * Found(legal_principles, scored.text)
                      + HierarchyBonus(scored.court)
                      + RecencyBonus(scored.court))
    /\ scored.value >= 0
    /\ scored.value <= 10000
    /\ (scored.text = << >> /\ scored.court = DAIRE_2) => scored.value = 3000

\* keyword occurs in text as a substring when case is ignored
OccursIgnoringCase(keyword, text) ==
  LET k == Lower(keyword)
      t == Lower(text)
  IN  \E i \in 1..(Len(t) + 1) : \E j \in (i - 1)..Len(t) : SubSeq(t, i, j) = k

\* C13: the lexical score is 0 for an empty keyword list and otherwise the
\* number of keywords of the list occurring in the text, case ignored, over
\* the length of the list; it lies in [0, 1], is 1 only when every keyword
\* occurs, and is 0.5 for the text "Taraflar arasindaki bosanma ve nafaka
\* davasi" with the keywords "bosanma" and "velayet".
C13_LexicalScore ==
  scored.op = "keyword" =>
    LET kws == scored.keywords
        matched == { i \in 1..Len(kws) : OccursIgnoringCase(kws[i], scored.text) }
    IN  /\ kws = << >> => scored.value = 0
        /\ kws # << >> =>
              scored.value = (Cardinality(matched) * 10000) \div Len(kws)
        /\ scored.value >= 0
        /\ scored.value <= 10000
        /\ scored.value = 10000 => (kws # << >> /\ Cardinality(matched) = Len(kws))
        /\ (scored.text = TEXT_TARAFLAR /\ kws = << KW_BOSANMA, KW_VELAYET >>)
              => scored.value = 5000

\* the example of the specification has been scored, one of two matched
C13_Witness ==
  /\ scored.op = "keyword"
  /\ scored.text = TEXT_TARAFLAR
  /\ scored.keywords = << KW_BOSANMA, KW_VELAYET >>
  /\ OccursIgnoringCase(KW_BOSANMA, scored.text)
  /\ ~OccursIgnoringCase(KW_VELAYET, scored.text)
  /\ scored.value = 5000

\* the cache holds the field for the query
Stored(query, field) ==
  /\ query \in DOMAIN cached_analyses
  /\ field \in DOMAIN cached_analyses[query]

\* C14: cache hits are per field: a direct keyword extraction is served
\* from the cache only if a keyword list is stored for that query, and then
\* returns that list; a direct intent extraction is served from the cache
\* only if an intent is stored for it; anything else computes.
C14_PerFieldCacheHits ==
  /\ (last.op = "keywords" /\ last.hit) =>
        /\ Stored(last.query, "keywords")
        /\ last.keywords = cached_analyses[last.query]["keywords"]
  /\ (last.op = "intent" /\ last.hit) => Stored(last.query, "case_type")
  /\ (last.op \in { "keywords", "intent" } /\ ~last.hit) => last.called

\* the text a candidate was scored on, line 291
ScoredText(c) == IF c.raw_text # << >> THEN c.raw_text ELSE c.snippet

\* C15: within one search the LLM is invoked at most once for the keywords,
\* at most once for the intent and at most three times in all; the keyword
\* extraction of the candidate search makes no LLM call, and every candidate
\* is scored on the keyword list the first extraction returned.
C15_OneLlmCallPerPurpose ==
  /\ llmCalls.keywords <= 1
  /\ llmCalls.intent <= 1
  /\ llmCalls.keywords + llmCalls.intent + llmCalls.explain <= 3
  /\ pc \in { "searched", "ranked", "returned" } =>
        /\ llmCalls.keywords = 1
        /\ cached_analyses[case_description]["keywords"] = keywords
        /\ \A p \in { << ScoredText(all_results[j]), all_results[j].keyword_score >> :
                         j \in 1..Len(all_results) } :
              p[2] = keyword_match_score(p[1], keywords)

\* a search returned after three LLM invocations, with candidates scored on
\* keywords that the LLM gave
C15_Witness ==
  /\ pc = "returned"
  /\ llmCalls = [keywords |-> 1, intent |-> 1, explain |-> 1]
  /\ keywords # FallbackKeywords(case_description)
  /\ \E j \in 1..Len(all_results) : all_results[j].keyword_score > 0
  /\ \E j \in 1..Len(all_results) : all_results[j].keyword_score < 10000

\* C16: the LLM handle is a lazy singleton: it is null before the first LLM
\* call, at most one instance is ever constructed, and once constructed the
\* handle is that instance in every later call and search, never another
\* one and never null again.
C16_LazySingletonLlm ==
  /\ llmBuilt \in { 0, 1 }
  /\ llm = llmBuilt
  /\ pc = "idle" => llm = 0

\* a second search got its explanation from the LLM, on the one instance
C16_Witness ==
  /\ pc = "returned"
  /\ prev_query # None
  /\ llmCalls = [keywords |-> 1, intent |-> 1, explain |-> 1]
  /\ result.explanation = R_EXPL
  /\ llm = 1
  /\ llmBuilt = 1

\* the chunks of the store in the order of its rows, each once
ExpectedParagraphs == ChunkRows(db_decisions, 1, Len(db_decisions))

PageCommitted(p) ==
  /\ p \in committed_pages
  /\ \A k \in 1..Len(PageOf(site, p)) :
        LET doc_id == PageOf(site, p)[k].documentId
        IN  doc_id # 0 => \E r \in decisions : r.url = doc_id

\* the page of the checkpoint file, 0 while there is none
CheckpointedPage ==
  IF checkpoint_file.readable THEN checkpoint_file.last_page ELSE 0

\* C18: the checkpoint of a page is written only after the inserts of the
\* page are committed and a run starts one page after the checkpoint (at
\* page 1 without a checkpoint file): across crashes and restarts every page
\* up to the checkpointed one is committed, and a running scraper has
\* skipped no uncommitted page.
C18_CheckpointAfterCommit ==
  /\ \A p \in 1..CheckpointedPage : PageCommitted(p)
  /\ scraper_pc \in { "search", "page", "committed" } =>
        /\ checkpoint_file # Corrupt
        /\ page_number = CheckpointedPage + 1
        /\ \A p \in 1..(page_number - 1) : PageCommitted(p)
  /\ scraper_pc = "committed" => PageCommitted(page_number)

\* after a crash between the commit of a page and its checkpoint, a later
\* run is processing that page again
C18_Witness ==
  /\ runs >= 2
  /\ scraper_pc = "page"
  /\ page_number >= 2
  /\ page_number \in committed_pages
  /\ CheckpointedPage = page_number - 1

\* hit number i names a metadata entry, its read does not fail and the row
\* of its decision exists
HasReadableRow(i) ==
  LET idx == hits[i + 1][1]
  IN  /\ idx >= 0
      /\ idx < Len(world.meta)
      /\ i \notin failRanks
      /\ world.meta[idx + 1].id \in DOMAIN world.store

\* the row read for hit number i
RowOf(i) == world.store[world.meta[hits[i + 1][1] + 1].id]

MissingField(row) == row.daire = None \/ row.esas = None \/ row.tarih = None

\* C19: a retrieved chunk whose row exists but has no chamber, case number
\* or date still yields a candidate, which reports the missing field as
\* "Bilinmiyor".
C19_MissingFieldsKeepCandidate ==
  pc = "searched" =>
    \A i \in 0..(Len(hits) - 1) :
      (HasReadableRow(i) /\ MissingField(RowOf(i)))
        => \E j \in 1..Len(all_results) :
             /\ all_results[j].rank = i
             /\ all_results[j].daire = OrUnknown(RowOf(i).daire)
             /\ all_results[j].esas = OrUnknown(RowOf(i).esas)
             /\ all_results[j].tarih = OrUnknown(RowOf(i).tarih)

====
